---- MODULE Spec2Model ----
(***************************************************************************)
(* A model of the watch subsystem of lune-std-fs: `fs_watch` (lib.rs) and  *)
(* `WatchOptions` (watch.rs).  One session is modelled: the conversion of  *)
(* the Lua arguments, the set-up of channel, watcher, handlers and glob,   *)
(* the registration of the root path, the receive loop with its filter,    *)
(* routing and dispatch steps, the notify thread that hands events into    *)
(* the capacity-1 tokio channel, and the host scheduler's thread queue.    *)
(***************************************************************************)
EXTENDS Naturals, Sequences, FiniteSets, TLC

VARIABLES
    luaOptions,      \* the Lua value given as `options`
    luaHandlers,     \* the Lua table given as `handlers`
    rootOk,          \* whether the root path exists and is accessible
    pc,              \* position of the fs_watch future
    result,          \* what the call returned: "none" while it has not
    options,         \* the WatchOptions parsed by from_lua
    handler,         \* added_handler, read_handler, ... : Some / None
    glob,            \* the compiled glob matcher
    watcher,         \* the RecommendedWatcher: "none", "created", "watching", "dropped"
    watched,         \* whether the notify thread holds a watch on the root
    rx,              \* receive endpoint: "none", "open", "dropped"
    chan,            \* the buffer of the mpsc channel
    prodPc,          \* the notify thread: "none", "idle", "sending", "stopped", "panicked"
    prodEv,          \* the value the notify thread is handing off
    produced,        \* number of values the notify thread started to hand off
    event,           \* the value the loop received last
    stat,            \* what is_file / is_dir answered for the paths of `event`
    filtered_paths,  \* the filtered list of the event being processed
    sched,           \* the host scheduler's queue of pushed threads
    handlerError,    \* whether a handler has raised an error in the scheduler
    sent,            \* history: ids whose blocking_send completed, in order
    received         \* history: ids the loop took out of the channel, in order

vars == <<luaOptions, luaHandlers, rootOk, pc, result, options, handler, glob,
          watcher, watched, rx, chan, prodPc, prodEv, produced, event, stat,
          filtered_paths, sched, handlerError, sent, received>>

(***************************************************************************)
(* Bounds and program constants                                            *)
(***************************************************************************)
\* number of values the notify thread produces in one run of the model
MaxEvents == 3

\* tokio::sync::mpsc::channel(1)
ChannelCapacity == 1

\* interval.unwrap_or(30), Default::default() interval: Some(30)
DefaultInterval == 30

(***************************************************************************)
(* Lua values (mlua::Value), as far as from_lua and handlers.get look at   *)
(* them.  Strings and paths are sequences of one-character strings.        *)
(***************************************************************************)
LuaNil == [t |-> "nil", b |-> FALSE, n |-> 0, s |-> <<>>]

LuaBool(x) == [t |-> "boolean", b |-> x, n |-> 0, s |-> <<>>]

LuaNum(x) == [t |-> "number", b |-> FALSE, n |-> x, s |-> <<>>]

LuaStr(x) == [t |-> "string", b |-> FALSE, n |-> 0, s |-> x]

LuaFunction == [t |-> "function", b |-> FALSE, n |-> 0, s |-> <<>>]

\* an options table; an absent key reads as nil
LuaTable(p, r, wf, wd, i) ==
    [t |-> "table",
     f |-> [pattern |-> p, recursive |-> r, watchFiles |-> wf,
            watchDirectories |-> wd, interval |-> i]]

(***************************************************************************)
(* WatchOptions (watch.rs)                                                 *)
(***************************************************************************)
\* Option<u64>: <<>> is None, <<n>> is Some(n)
None == <<>>

Some(x) == <<x>>

\* impl Default for WatchOptions
DefaultOptions ==
    [pattern |-> <<>>, recursive |-> FALSE, watch_files |-> TRUE,
     watch_diretories |-> TRUE, interval |-> Some(DefaultInterval)]

\* mlua's FromLua for bool: nil and false are false, everything else true
BoolFromLua(v) ==
    IF v.t = "nil" THEN FALSE ELSE IF v.t = "boolean" THEN v.b ELSE TRUE

\* mlua's FromLua for String: a string converts, nil and booleans do not
StringFromLua(v) ==
    IF v.t = "string" THEN [ok |-> TRUE, val |-> v.s]
    ELSE [ok |-> FALSE, val |-> <<>>]

\* t.get::<Option<u64>>(..).unwrap_or_default(): nil is None, a number is
\* Some, and a conversion error is replaced by the default, None
IntervalFromLua(v) == IF v.t = "number" THEN Some(v.n) ELSE None

\* impl FromLua for WatchOptions
from_lua(value) ==
    IF value.t = "string"
    THEN [ok |-> TRUE, val |-> [DefaultOptions EXCEPT !.pattern = value.s]]
    ELSE IF value.t = "table"
    THEN LET p == StringFromLua(value.f.pattern)
         IN  [ok |-> p.ok,
              val |-> [pattern |-> p.val,
                       recursive |-> BoolFromLua(value.f.recursive),
                       watch_files |-> BoolFromLua(value.f.watchFiles),
                       watch_diretories |-> BoolFromLua(value.f.watchDirectories),
                       interval |-> IntervalFromLua(value.f.interval)]]
    ELSE [ok |-> FALSE, val |-> DefaultOptions]

\* into_watcher: Duration::from_secs(self.interval.unwrap_or(30))
PollInterval(o) == IF o.interval = None THEN DefaultInterval ELSE o.interval[1]

(***************************************************************************)
(* globset: the patterns of the model are made of literal characters, `*`  *)
(* (any run of characters, separators included, as literal_separator is    *)
(* off by default) and `[`, which opens a character class and is an error  *)
(* when the class is never closed.                                         *)
(***************************************************************************)
\* Glob::new(&options.pattern): Err on an unclosed character class
GlobNewOk(pattern) == \A i \in DOMAIN pattern : pattern[i] # "["

RECURSIVE is_match(_, _)
\* GlobMatcher::is_match(path)
is_match(g, path) ==
    IF g = <<>> THEN path = <<>>
    ELSE IF Head(g) = "*"
    THEN is_match(Tail(g), path) \/ (path # <<>> /\ is_match(g, Tail(path)))
    ELSE path # <<>> /\ Head(path) = Head(g) /\ is_match(Tail(g), Tail(path))

(***************************************************************************)
(* The loop body of fs_watch as functions of the received event            *)
(***************************************************************************)
\* Path::to_string_lossy: a byte that is not valid UTF-8 ("xFF") becomes
\* U+FFFD REPLACEMENT CHARACTER ("uFFFD"); everything else is kept
to_string_lossy(path) ==
    [i \in DOMAIN path |-> IF path[i] = "xFF" THEN "uFFFD" ELSE path[i]]

\* faulty variant: whatever is no directory taken for a file
TypeFilterNotDir(paths, st, o) ==
    SelectSeq(paths, LAMBDA elem : \/ (st[elem] # "dir" /\ o.watch_files)
                                   \/ (st[elem] = "dir" /\ o.watch_diretories))

\* .filter(|elem| (elem.is_file() && options.watch_files)
\*             || (elem.is_dir() && options.watch_diretories))
TypeFilter(paths, st, o) ==
    SelectSeq(paths, LAMBDA elem : \/ (st[elem] = "file" /\ o.watch_files)
                                   \/ (st[elem] = "dir" /\ o.watch_diretories))

\* .filter(|elem| (glob.is_match(elem)))
PatternFilter(paths, g) == SelectSeq(paths, LAMBDA elem : is_match(g, elem))

\* event.paths.iter().filter(..).filter(..).map(to_string_lossy).collect()
FilterPaths(paths, st, o, g) ==
    LET kept == PatternFilter(TypeFilter(paths, st, o), g)
    IN  [i \in DOMAIN kept |-> to_string_lossy(kept[i])]

\* faulty variant: every Access kind taken for a read
MatchKindAnyAccess(kind) ==
    CASE kind \in {"AccessRead", "AccessAny", "AccessOpen", "AccessClose",
                   "AccessOther"} -> "read"
      [] kind = "Remove" -> "removed"
      [] kind = "Create" -> "added"
      [] kind = "Modify" -> "changed"
      [] OTHER -> "continue"

\* match event.kind { .. }: the handler slot, or "continue"
MatchKind(kind) ==
    CASE kind = "AccessRead" -> "read"
      [] kind = "Remove" -> "removed"
      [] kind = "Create" -> "added"
      [] kind = "Modify" -> "changed"
      [] OTHER -> "continue"

\* faulty variant: any entry that is not nil taken for a handler
GetHandlerNotNil(tbl, key) == tbl[key].t # "nil"

\* handlers.get::<_, LuaFunction>(key).ok(): Some iff the entry is a function
GetHandler(tbl, key) == tbl[key].t = "function"

(***************************************************************************)
(* The inputs of the model                                                 *)
(***************************************************************************)
PathA == <<"d", "/", "a", ".", "t">>

PathB == <<"d", "/", "b", ".", "n">>

PathC == <<"d", "/", "c", ".", "t">>

\* a file name that is not valid UTF-8
PathBad == <<"d", "/", "xFF", ".", "t">>

PatAll == <<"*">>

PatTxt == <<"*", ".", "t">>

PatBroken == <<"[", "a">>

HandlerKeys == {"added", "read", "removed", "changed"}

\* notify::EventKind, with the variants of AccessKind spelled out
EventKinds ==
    {"Any", "AccessAny", "AccessRead", "AccessOpen", "AccessClose",
     "AccessOther", "Create", "Modify", "Remove", "Other"}

EventPaths == {<<>>, <<PathA>>, <<PathB>>, <<PathC, PathA>>, <<PathBad>>}

StatResults == {"file", "dir", "none"}

LuaOptionValues ==
    {LuaStr(PatAll), LuaStr(PatTxt), LuaStr(PatBroken), LuaNil,
     LuaTable(LuaStr(PatTxt), LuaNil, LuaNil, LuaNil, LuaNil),
     LuaTable(LuaStr(PatTxt), LuaNil, LuaBool(TRUE), LuaBool(FALSE), LuaNil),
     LuaTable(LuaStr(PatAll), LuaBool(TRUE), LuaBool(FALSE), LuaBool(TRUE), LuaNum(5)),
     LuaTable(LuaNil, LuaNil, LuaBool(TRUE), LuaBool(TRUE), LuaNil)}

LuaHandlerTables ==
    {[k \in HandlerKeys |-> LuaNil],
     [k \in HandlerKeys |-> IF k = "changed" THEN LuaFunction ELSE LuaNil],
     [k \in HandlerKeys |-> LuaFunction],
     [k \in HandlerKeys |-> IF k = "added" THEN LuaStr(<<"a">>)
                            ELSE IF k = "removed" THEN LuaFunction ELSE LuaNil]}

\* notify::Result<Event>, tagged with its position in the production order
OkEvent(i, k, ps) == [id |-> i, ok |-> TRUE, kind |-> k, paths |-> ps]

ErrEvent(i) == [id |-> i, ok |-> FALSE, kind |-> "Error", paths |-> <<>>]

NoEvent == [id |-> 0, ok |-> FALSE, kind |-> "None", paths |-> <<>>]

\* every kind with every path list, and a watcher error
Results(i) ==
    {OkEvent(i, k, ps) : k \in EventKinds, ps \in EventPaths} \cup {ErrEvent(i)}

\* the results a burst is made of: a creation, a change of a file that the
\* pattern `*.t` excludes, an access that is not a read, a removal, and a
\* watcher error
BurstResults(i) ==
    {OkEvent(i, "Create", <<PathA>>), OkEvent(i, "Modify", <<PathB>>),
     OkEvent(i, "AccessOpen", <<PathA>>), OkEvent(i, "Remove", <<PathC>>),
     ErrEvent(i)}

PathSet(ps) == {ps[i] : i \in DOMAIN ps}

(***************************************************************************)
(* Initial state: the call has been made, nothing has run                  *)
(***************************************************************************)
Init ==
    /\ luaOptions \in LuaOptionValues
    /\ luaHandlers \in LuaHandlerTables
    /\ rootOk \in BOOLEAN
    /\ pc = "args"
    /\ result = "none"
    /\ options = DefaultOptions
    /\ handler = [k \in HandlerKeys |-> FALSE]
    /\ glob = <<>>
    /\ watcher = "none"
    /\ watched = FALSE
    /\ rx = "none"
    /\ chan = <<>>
    /\ prodPc = "none"
    /\ prodEv = NoEvent
    /\ produced = 0
    /\ event = NoEvent
    /\ stat = <<>>
    /\ filtered_paths = <<>>
    /\ sched = <<>>
    /\ handlerError = FALSE
    /\ sent = <<>>
    /\ received = <<>>

inputs == <<luaOptions, luaHandlers, rootOk, handlerError>>

producer == <<prodPc, prodEv, produced, sent>>

locals == <<event, stat, filtered_paths>>

(***************************************************************************)
(* fs_watch up to the loop                                                 *)
(***************************************************************************)
\* `return Err(..)` / `?` out of fs_watch: the locals are dropped, the
\* watcher (which tells the notify thread to shut down) and rx among them
Return(r) ==
    /\ pc' = "returned"
    /\ result' = r
    /\ watcher' = IF watcher = "none" THEN "none" ELSE "dropped"
    /\ rx' = IF rx = "none" THEN "none" ELSE "dropped"
    /\ chan' = <<>>

\* the conversion of the arguments: WatchOptions::from_lua
FromLuaArgs ==
    /\ pc = "args"
    /\ LET r == from_lua(luaOptions)
       IN  IF r.ok
           THEN /\ options' = r.val
                /\ pc' = "channel"
                /\ UNCHANGED <<result, watcher, rx, chan>>
           ELSE /\ Return("ConfigError")
                /\ UNCHANGED options
    /\ UNCHANGED <<inputs, handler, glob, watched, producer, locals, sched, received>>

\* lib.rs 140-141: the channel and the watcher; RecommendedWatcher::new
\* starts the notify thread, or fails
NewWatcher ==
    /\ pc = "channel"
    /\ \/ /\ pc' = "handlers"
          /\ rx' = "open"
          /\ watcher' = "created"
          /\ prodPc' = "idle"
          /\ UNCHANGED <<result, chan>>
       \/ /\ Return("InitError")
          /\ UNCHANGED prodPc
    /\ UNCHANGED <<inputs, options, handler, glob, watched, prodEv, produced, sent,
                   locals, sched, received>>

\* lib.rs 143-146
GetHandlers ==
    /\ pc = "handlers"
    /\ handler' = [k \in HandlerKeys |-> GetHandler(luaHandlers, k)]
    /\ pc' = "glob"
    /\ UNCHANGED <<inputs, result, options, glob, watcher, watched, rx, chan,
                   producer, locals, sched, received>>

\* lib.rs 148-150
CompileGlob ==
    /\ pc = "glob"
    /\ IF GlobNewOk(options.pattern)
       THEN /\ glob' = options.pattern
            /\ pc' = "watch"
            /\ UNCHANGED <<result, watcher, rx, chan>>
       ELSE /\ Return("ConfigError")
            /\ UNCHANGED glob
    /\ UNCHANGED <<inputs, options, handler, watched, producer, locals, sched, received>>

\* faulty variant: the result of watcher.watch is ignored
WatchUnchecked ==
    /\ pc = "watch"
    /\ watcher' = "watching"
    /\ watched' = rootOk
    /\ pc' = "recv"
    /\ UNCHANGED <<inputs, result, rx, chan, options, handler, glob, producer,
                   locals, sched, received>>

\* lib.rs 152-161: watcher.watch(root_path, mode)
Watch ==
    /\ pc = "watch"
    /\ IF rootOk
       THEN /\ watcher' = "watching"
            /\ watched' = TRUE
            /\ pc' = "recv"
            /\ UNCHANGED <<result, rx, chan>>
       ELSE /\ Return("RegistrationError")
            /\ UNCHANGED watched
    /\ UNCHANGED <<inputs, options, handler, glob, producer, locals, sched, received>>

(***************************************************************************)
(* The channel: tokio::sync::mpsc::channel(1)                              *)
(***************************************************************************)
\* faulty variant: a bound that is one too small, so that no send finds a permit
HasPermitOffByOne(c) == Len(c) + 1 < ChannelCapacity

\* faulty variant: a buffer of two slots
HasPermitTwo(c) == Len(c) < ChannelCapacity + 1

\* faulty variant: an unbounded channel
HasPermitUnbounded(c) == TRUE

\* a send completes only with a permit: a free slot of the buffer
HasPermit(c) == Len(c) < ChannelCapacity

\* the buffer after a completed send
Push(c, v) == Append(c, v)

\* faulty variant: recv() reads the first value and leaves it in the buffer
PopKeep(c) == c

\* the buffer after recv() took its first value out
Pop(c) == Tail(c)

(***************************************************************************)
(* The loop of fs_watch                                                    *)
(***************************************************************************)
\* the end of one iteration: the iteration's locals go out of scope
NextIteration ==
    /\ pc' = "recv"
    /\ event' = NoEvent
    /\ stat' = <<>>
    /\ filtered_paths' = <<>>

\* faulty variant: a watcher error is skipped and the loop goes on
RecvSkipErr ==
    /\ pc = "recv"
    /\ rx = "open"
    /\ chan # <<>>
    /\ received' = Append(received, Head(chan).id)
    /\ chan' = Tail(chan)
    /\ IF Head(chan).ok
       THEN event' = Head(chan) /\ pc' = "filter"
       ELSE UNCHANGED <<event, pc>>
    /\ UNCHANGED <<inputs, result, watcher, rx, options, handler, glob, watched,
                   producer, stat, filtered_paths, sched>>

\* lib.rs 163-164: rx.recv().await yields Some(res); res.into_lua_err()?
Recv ==
    /\ pc = "recv"
    /\ rx = "open"
    /\ chan # <<>>
    /\ received' = Append(received, Head(chan).id)
    /\ IF Head(chan).ok
       THEN /\ event' = Head(chan)
            /\ chan' = Pop(chan)
            /\ pc' = "filter"
            /\ UNCHANGED <<result, watcher, rx>>
       ELSE /\ Return("WatchError")
            /\ UNCHANGED event
    /\ UNCHANGED <<inputs, options, handler, glob, watched, producer, stat,
                   filtered_paths, sched>>

\* every Sender is gone once the notify thread, which owns tx, has ended
SendersDropped == prodPc \in {"stopped", "panicked"}

\* faulty variant: an empty buffer taken for a closed channel
RecvNoneOnEmpty ==
    /\ pc = "recv"
    /\ rx = "open"
    /\ chan = <<>>
    /\ Return("Ok")
    /\ UNCHANGED <<inputs, options, handler, glob, watched, producer, locals,
                   sched, received>>

\* lib.rs 163, 195: rx.recv().await yields None, the channel being closed
\* and empty; the loop ends and fs_watch returns Ok(())
RecvNone ==
    /\ pc = "recv"
    /\ rx = "open"
    /\ chan = <<>>
    /\ SendersDropped
    /\ Return("Ok")
    /\ UNCHANGED <<inputs, options, handler, glob, watched, producer, locals,
                   sched, received>>

\* lib.rs 165-174: the filesystem answers is_file / is_dir for each path;
\* what it answers is whatever the filesystem holds at that moment
Filter ==
    /\ pc = "filter"
    /\ \E st \in [PathSet(event.paths) -> StatResults] :
          /\ stat' = st
          /\ filtered_paths' = FilterPaths(event.paths, st, options, glob)
    /\ pc' = "filtered"
    /\ UNCHANGED <<inputs, result, options, handler, glob, watcher, watched, rx,
                   chan, producer, event, sched, received>>

\* faulty variant: the thread is queued twice
push_thread_back_twice(q, slot, args, id) ==
    Append(Append(q, [id |-> id, handler |-> slot, args |-> args]),
           [id |-> id, handler |-> slot, args |-> args])

\* faulty variant: the thread is put at the front of the queue
push_thread_front(q, slot, args, id) ==
    <<[id |-> id, handler |-> slot, args |-> args]>> \o q

\* lua.push_thread_back(handler, filtered_paths): a thread at the back of
\* the scheduler's queue (its only error is Lua running out of memory,
\* which the model leaves out)
push_thread_back(q, slot, args, id) ==
    Append(q, [id |-> id, handler |-> slot, args |-> args])

\* faulty variant: the check for an empty list left out
DispatchEmptyToo(q, ev, fp, h) ==
    IF MatchKind(ev.kind) = "continue" THEN q
    ELSE IF h[MatchKind(ev.kind)]
    THEN push_thread_back(q, MatchKind(ev.kind), fp, ev.id)
    ELSE q

\* lib.rs 176-192: the scheduler queue after the rest of the iteration
Dispatch(q, ev, fp, h) ==
    IF fp = <<>> THEN q
    ELSE IF MatchKind(ev.kind) = "continue" THEN q
    ELSE IF h[MatchKind(ev.kind)]
    THEN push_thread_back(q, MatchKind(ev.kind), fp, ev.id)
    ELSE q

\* lib.rs 176-193
Route ==
    /\ pc = "filtered"
    /\ sched' = Dispatch(sched, event, filtered_paths, handler)
    /\ NextIteration
    /\ UNCHANGED <<inputs, result, options, handler, glob, watcher, watched, rx,
                   chan, producer, received>>

\* faulty variant: the threads the session queued are taken back
CancelRetract ==
    /\ pc = "recv"
    /\ pc' = "cancelled"
    /\ watcher' = "dropped"
    /\ rx' = "dropped"
    /\ chan' = <<>>
    /\ sched' = <<>>
    /\ UNCHANGED <<inputs, result, options, handler, glob, watched, producer,
                   locals, received>>

\* the task awaiting fs_watch is aborted: the future is dropped at its
\* await point and its locals with it
Cancel ==
    /\ pc = "recv"
    /\ pc' = "cancelled"
    /\ watcher' = "dropped"
    /\ rx' = "dropped"
    /\ chan' = <<>>
    /\ UNCHANGED <<inputs, result, options, handler, glob, watched, producer,
                   locals, sched, received>>

(***************************************************************************)
(* The notify thread: the event handler of watch.rs 25                     *)
(***************************************************************************)
\* the back-end calls the handler with a result: tx.blocking_send(res) begins
Produce(res) ==
    /\ prodPc = "idle"
    /\ watched
    /\ prodEv' = res
    /\ prodPc' = "sending"
    /\ produced' = produced + 1
    /\ UNCHANGED <<inputs, pc, result, options, handler, glob, watcher, watched,
                   rx, chan, sent, locals, sched, received>>

\* blocking_send returns Ok: the value is in the buffer
SendComplete ==
    /\ prodPc = "sending"
    /\ rx = "open"
    /\ HasPermit(chan)
    /\ chan' = Push(chan, prodEv)
    /\ sent' = Append(sent, prodEv.id)
    /\ prodPc' = "idle"
    /\ prodEv' = NoEvent
    /\ UNCHANGED <<inputs, pc, result, options, handler, glob, watcher, watched,
                   rx, produced, locals, sched, received>>

\* blocking_send returns Err(SendError): the receiver is gone; unwrap panics
SendFail ==
    /\ prodPc = "sending"
    /\ rx = "dropped"
    /\ prodPc' = "panicked"
    /\ prodEv' = NoEvent
    /\ watched' = FALSE
    /\ UNCHANGED <<inputs, pc, result, options, handler, glob, watcher, rx, chan,
                   produced, sent, locals, sched, received>>

\* the notify thread sees the shutdown message of the dropped watcher
ProducerStop ==
    /\ prodPc = "idle"
    /\ watcher = "dropped"
    /\ prodPc' = "stopped"
    /\ watched' = FALSE
    /\ UNCHANGED <<inputs, pc, result, options, handler, glob, watcher, rx, chan,
                   prodEv, produced, sent, locals, sched, received>>

\* the watcher is torn down from outside the session: its thread ends while
\* fs_watch still holds the watcher, and the handler that owns tx is dropped
ThreadExit ==
    /\ prodPc = "idle"
    /\ watcher = "watching"
    /\ prodPc' = "stopped"
    /\ watched' = FALSE
    /\ UNCHANGED <<inputs, pc, result, options, handler, glob, watcher, rx, chan,
                   prodEv, produced, sent, locals, sched, received>>

(***************************************************************************)
(* The host scheduler                                                      *)
(***************************************************************************)
\* faulty variant: the error a handler raises is returned by the watch call
RunHandlerFailsCall ==
    /\ sched # <<>>
    /\ pc \in {"recv", "returned", "cancelled"}
    /\ sched' = Tail(sched)
    /\ \E raised \in BOOLEAN :
          /\ handlerError' = (handlerError \/ raised)
          /\ IF raised /\ pc = "recv"
             THEN Return("HandlerError")
             ELSE UNCHANGED <<pc, result, watcher, rx, chan>>
    /\ UNCHANGED <<luaOptions, luaHandlers, rootOk, options, handler,
                   glob, watched, producer, locals, received>>

\* the scheduler resumes the thread at the front of its queue; it runs Lua
\* only while the fs_watch future is not running.  The handler returns or
\* raises; an error stays with the scheduler, fs_watch holds nothing of
\* the thread it pushed
RunHandler ==
    /\ sched # <<>>
    /\ pc \in {"recv", "returned", "cancelled"}
    /\ sched' = Tail(sched)
    /\ \E raised \in BOOLEAN : handlerError' = (handlerError \/ raised)
    /\ UNCHANGED <<luaOptions, luaHandlers, rootOk, pc, result, options, handler,
                   glob, watcher, watched, rx, chan, producer, locals, received>>

\* a burst of up to MaxEvents results
ProduceBurst ==
    /\ produced < MaxEvents
    /\ \E res \in BurstResults(produced + 1) : Produce(res)

\* a single result, of any kind and with any of the path lists
ProduceOne ==
    /\ produced = 0
    /\ \E res \in Results(produced + 1) : Produce(res)

\* everything but the production of results
Step ==
    \/ FromLuaArgs
    \/ NewWatcher
    \/ GetHandlers
    \/ CompileGlob
    \/ Watch
    \/ Recv
    \/ RecvNone
    \/ Filter
    \/ Route
    \/ Cancel
    \/ SendComplete
    \/ SendFail
    \/ ProducerStop
    \/ ThreadExit
    \/ RunHandler

Next == Step \/ ProduceBurst

Spec == Init /\ [][Next]_vars

NextOne == Step \/ ProduceOne

\* sessions in which the watcher reports one result
SpecOne == Init /\ [][NextOne]_vars

\* the loop and the notify thread are scheduled fairly; handlers need not
\* ever run
FairSpec ==
    /\ Spec
    /\ WF_vars(Recv)
    /\ WF_vars(Filter)
    /\ WF_vars(Route)
    /\ WF_vars(SendComplete)

(***************************************************************************)
(* Session states of the design                                            *)
(***************************************************************************)
Running == pc \in {"recv", "filter", "filtered"}

Errored == pc = "returned" /\ result = "WatchError"

Closed == pc = "returned" /\ result = "Ok"

Range(q) == {q[i] : i \in DOMAIN q}

IsPrefix(p, q) == Len(p) <= Len(q) /\ \A i \in DOMAIN p : p[i] = q[i]

(***************************************************************************)
(* C1: the results the loop has received are, in order, the first of the   *)
(* results whose hand-off the notify thread has completed: nothing is      *)
(* dropped, duplicated or reordered on the way.                            *)
(***************************************************************************)
C1_ReceivedPrefixOfSent == IsPrefix(received, sent)

\* a whole burst has gone through while a handler is still waiting to run
C1_Witness == Len(received) = MaxEvents /\ received = sent /\ sched # <<>>

(***************************************************************************)
(* C2: under fair scheduling of the loop and the notify thread, a result   *)
(* whose hand-off has begun is eventually received, unless the session     *)
(* stops being Running (watcher error, cancellation) before.               *)
(***************************************************************************)
C2_HandOffLeadsToReceipt ==
    \A i \in 1..MaxEvents :
        (prodPc = "sending" /\ prodEv.id = i) ~> (i \in Range(received) \/ ~Running)

\* the whole burst is received, the session still Running, handlers pending
C2_Witness ==
    /\ Running
    /\ Len(received) = MaxEvents
    /\ produced = MaxEvents
    /\ Len(sched) >= 2

(***************************************************************************)
(* C3: the buffer never holds more than one result; the hand-off of result *)
(* n+1 completes only after result n was received, and until then the      *)
(* notify thread cannot complete it.                                       *)
(***************************************************************************)
C3_AtMostOneUndelivered ==
    /\ Len(chan) <= 1
    /\ Len(sent) <= Len(received) + 1
    /\ (prodPc = "sending" /\ Len(sent) > Len(received)) => ~ENABLED SendComplete

\* the notify thread is blocked with the next result while one is undelivered
C3_Witness ==
    /\ prodPc = "sending"
    /\ Len(chan) = 1
    /\ prodEv.id = Head(chan).id + 1
    /\ Running

(***************************************************************************)
(* The filter and the routing table as the design states them              *)
(***************************************************************************)
\* a path is kept iff it passes the type filter and the pattern filter
Keep(p, st, o, g) ==
    /\ \/ (st[p] = "file" /\ o.watch_files)
       \/ (st[p] = "dir" /\ o.watch_diretories)
    /\ is_match(g, p)

RECURSIVE KeptPaths(_, _, _, _)
\* the subsequence of the kept paths, in the order of the event
KeptPaths(ps, st, o, g) ==
    IF ps = <<>> THEN <<>>
    ELSE (IF Keep(Head(ps), st, o, g) THEN <<Head(ps)>> ELSE <<>>)
         \o KeptPaths(Tail(ps), st, o, g)

\* the kept paths as the strings a handler is given
KeptStrings(ps, st, o, g) ==
    LET kept == KeptPaths(ps, st, o, g)
    IN  [i \in DOMAIN kept |-> to_string_lossy(kept[i])]

RoutingTable ==
    [k \in {"Create", "Remove", "Modify", "AccessRead"} |->
        CASE k = "Create" -> "added"
          [] k = "Remove" -> "removed"
          [] k = "Modify" -> "changed"
          [] k = "AccessRead" -> "read"]

Routed(k) == k \in DOMAIN RoutingTable

\* the step that ends an iteration of the loop
EndsIteration == pc = "filtered" /\ pc' # "filtered"

Pushed == Len(sched') > Len(sched)

Last(q) == q[Len(q)]

(***************************************************************************)
(* C4: the filtered list is exactly the subsequence of the event's paths   *)
(* that pass the type filter and the pattern filter, order kept, nothing   *)
(* added, and a scheduled handler is given this list as its argument.      *)
(* Violated for a kept path that is not valid UTF-8: lib.rs 173 puts its   *)
(* lossy rendering into the list, a string that is none of the paths.      *)
(***************************************************************************)
C4_ListIsTheKeptPaths ==
    [][/\ pc' = "filtered" =>
            filtered_paths' = KeptPaths(event'.paths, stat', options', glob')
       /\ Pushed =>
            Last(sched').args = KeptPaths(event.paths, stat, options, glob)]_vars

\* what holds of fs_watch instead: the list is made of the lossy renderings
\* of the kept paths, which are the paths themselves when they are UTF-8
FilteredListIsTheKeptStrings ==
    [][/\ pc' = "filtered" =>
            filtered_paths' = KeptStrings(event'.paths, stat', options', glob')
       /\ Pushed =>
            Last(sched').args = KeptStrings(event.paths, stat, options, glob)]_vars

(***************************************************************************)
(* C5: an event whose filtered list is empty, whatever its kind, schedules *)
(* nothing and raises nothing: the session stays Running and awaits the    *)
(* next event; no handler is ever scheduled with an empty list.            *)
(***************************************************************************)
C5_EmptyListIsDropped ==
    [][/\ (EndsIteration /\ filtered_paths = <<>>) =>
            /\ sched' = sched
            /\ pc' = "recv"
            /\ result' = "none"
            /\ rx' = "open"
       /\ \A i \in DOMAIN sched' : sched'[i].args # <<>>]_vars

\* a creation whose only path was filtered out, with an `added` handler
C5_Witness ==
    /\ pc = "filtered"
    /\ event.kind = "Create"
    /\ event.paths # <<>>
    /\ filtered_paths = <<>>
    /\ handler["added"]

(***************************************************************************)
(* C6: with a non-empty filtered list, Created selects only `added`,       *)
(* Removed only `removed`, Modified only `changed`, AccessRead only        *)
(* `read`; every other kind schedules nothing and raises nothing.          *)
(***************************************************************************)
C6_RoutingIsFixed ==
    [][(EndsIteration /\ filtered_paths # <<>>) =>
          /\ pc' = "recv"
          /\ result' = "none"
          /\ IF Routed(event.kind)
             THEN IF handler[RoutingTable[event.kind]]
                  THEN /\ Len(sched') = Len(sched) + 1
                       /\ SubSeq(sched', 1, Len(sched)) = sched
                       /\ Last(sched').handler = RoutingTable[event.kind]
                  ELSE sched' = sched
             ELSE sched' = sched]_vars

\* an access that is not a read passed the filter while `read` is registered
C6_Witness ==
    /\ pc = "filtered"
    /\ event.kind = "AccessClose"
    /\ filtered_paths # <<>>
    /\ handler["read"]

(***************************************************************************)
(* C7: a received event causes at most one scheduling: a step queues at    *)
(* most one thread, only the step that ends the iteration of an event      *)
(* queues one, and no event is processed twice.  It causes exactly one iff *)
(* its filtered list is not empty, its kind is routed and the handler of   *)
(* that category is registered; an event none of whose paths passes the    *)
(* filters causes none.                                                    *)
(***************************************************************************)
C7_AtMostOneScheduling ==
    [][/\ Len(sched') <= Len(sched) + 1
       /\ Pushed => (EndsIteration /\ Last(sched').id = event.id)
       /\ (pc = "recv" /\ pc' = "filter") =>
            /\ event'.id \notin Range(received)
            /\ \A i \in DOMAIN sched : sched[i].id < event'.id
       /\ EndsIteration =>
            (Pushed <=> /\ filtered_paths # <<>>
                        /\ Routed(event.kind)
                        /\ handler[RoutingTable[event.kind]])
       /\ (EndsIteration /\ \A p \in PathSet(event.paths) :
                                ~Keep(p, stat, options, glob)) =>
            sched' = sched]_vars

\* after a creation was dispatched, a change of b.n is filtered out by *.t
\* although `changed` is registered
C7_Witness ==
    /\ pc = "filtered"
    /\ event.id = 2
    /\ event.kind = "Modify"
    /\ event.paths = <<PathB>>
    /\ stat[PathB] = "file"
    /\ options.watch_files
    /\ glob = PatTxt
    /\ handler["changed"]
    /\ filtered_paths = <<>>
    /\ Len(sched) = 1
    /\ sched[1].id = 1

(***************************************************************************)
(* C8: when the handlers record has no function for the category of an     *)
(* event, the event is discarded silently: nothing is scheduled, nothing   *)
(* is raised, the session stays Running and awaits the next event.         *)
(***************************************************************************)
C8_NoHandlerIsSilent ==
    [][(/\ EndsIteration
        /\ filtered_paths # <<>>
        /\ Routed(event.kind)
        /\ luaHandlers[RoutingTable[event.kind]].t # "function") =>
          /\ sched' = sched
          /\ pc' = "recv"
          /\ result' = "none"
          /\ rx' = "open"
          /\ watcher' = "watching"]_vars

\* the second event of a session whose handlers record is empty
C8_Witness ==
    /\ pc = "filtered"
    /\ event.id = 2
    /\ event.kind = "Create"
    /\ filtered_paths # <<>>
    /\ \A k \in HandlerKeys : luaHandlers[k].t = "nil"

(***************************************************************************)
(* C9: when the registration of the root fails, the call returns a         *)
(* RegistrationError at once and the session is never Running: the loop    *)
(* never awaits the channel, nothing is received, nothing is scheduled.    *)
(***************************************************************************)
C9_RegistrationFailure ==
    [][/\ (pc = "watch" /\ ~rootOk) =>
            (pc' = "returned" /\ result' = "RegistrationError")
       /\ (~rootOk \/ result' = "RegistrationError") =>
            /\ ~Running'
            /\ received' = <<>>
            /\ sched' = <<>>
            /\ produced' = 0]_vars

\* the call has returned the RegistrationError
C9_Witness ==
    /\ ~rootOk
    /\ pc = "returned"
    /\ result = "RegistrationError"
    /\ watcher = "dropped"

(***************************************************************************)
(* C10: a watcher error received while Running ends the session: the call  *)
(* returns the error; afterwards nothing is received and nothing is        *)
(* scheduled, and the threads scheduled before stay in the queue until the *)
(* scheduler runs them.                                                    *)
(***************************************************************************)
C10_ErrorIsTerminal ==
    [][/\ (pc = "recv" /\ chan # <<>> /\ ~Head(chan).ok /\ received' # received) =>
            /\ pc' = "returned"
            /\ result' = "WatchError"
            /\ sched' = sched
       /\ Errored =>
            /\ Errored'
            /\ received' = received
            /\ (sched' = sched \/ (sched # <<>> /\ sched' = Tail(sched)))
            /\ watcher' = "dropped"
            /\ rx' = "dropped"]_vars

\* the session ended on the error of the third result, two threads queued
C10_Witness ==
    /\ Errored
    /\ Len(received) = 3
    /\ Len(sched) = 2
    /\ prodPc = "stopped"

(***************************************************************************)
(* C11: a Running session ends only by cancellation, by a received watcher *)
(* error (Errored) or by the closed channel (Closed); it becomes Closed    *)
(* only from the await on a channel that is empty and whose senders are    *)
(* all gone, and while it is Running the senders go only by a teardown of  *)
(* the watcher in which the session takes no step.  A call that entered    *)
(* the loop returns only Ok (Closed) or the watcher error (Errored).       *)
(***************************************************************************)
C11_ClosedOnlyByClosedChannel ==
    [][/\ (Running /\ ~Running') => (pc' = "cancelled" \/ Errored' \/ Closed')
       /\ (~Closed /\ Closed') =>
            (pc = "recv" /\ chan = <<>> /\ SendersDropped)
       /\ (~Errored /\ Errored') => (pc = "recv" /\ received' # received)
       /\ (Running /\ ~SendersDropped /\ SendersDropped') =>
            /\ Running'
            /\ UNCHANGED <<pc, result, watcher, rx, chan, sched, received>>
       /\ (Running /\ pc' = "returned") => result' \in {"Ok", "WatchError"}]_vars

\* the call has returned normally after the watcher's thread ended
C11_Witness ==
    /\ Closed
    /\ prodPc = "stopped"
    /\ Len(received) = 2
    /\ sched # <<>>

(***************************************************************************)
(* C12: cancellation is free of a race with the producer: once the await   *)
(* is cancelled, the blocking send of the producer never fails.            *)
(* The formula states the claim; it does not hold.  The drop of the        *)
(* watcher does not wait for the notify thread, so a hand-off that has     *)
(* begun finds the receiver gone and the unwrap of watch.rs 25 panics.     *)
(***************************************************************************)
C12_CancelledSendNeverFails == pc = "cancelled" => prodPc # "panicked"

\* an options value that leaves every field but the pattern out
OmitsAllButPattern(v) ==
    \/ v.t = "string"
    \/ /\ v.t = "table"
       /\ v.f.recursive = LuaNil
       /\ v.f.watchFiles = LuaNil
       /\ v.f.watchDirectories = LuaNil
       /\ v.f.interval = LuaNil

(***************************************************************************)
(* C13: a bare string and a record that gives only the pattern both parse  *)
(* to recursive = false, watchFiles = true, watchDirectories = true and a  *)
(* polling interval of 30 seconds.                                         *)
(* The formula states the claim; it does not hold.  The record form reads  *)
(* each absent boolean with unwrap_or_default, which is false, so the      *)
(* record {pattern = "*.t"} watches neither files nor directories.         *)
(***************************************************************************)
C13_OmittedFieldsTakeDefaults ==
    (pc # "args" /\ from_lua(luaOptions).ok /\ OmitsAllButPattern(luaOptions)) =>
        /\ options.recursive = FALSE
        /\ options.watch_files = TRUE
        /\ options.watch_diretories = TRUE
        /\ PollInterval(options) = 30

\* the options of the call are rejected by from_lua or by Glob::new
ConfigInvalid ==
    \/ ~from_lua(luaOptions).ok
    \/ ~GlobNewOk(from_lua(luaOptions).val.pattern)

(***************************************************************************)
(* C14: a call whose record omits the pattern, or whose pattern is no      *)
(* glob, fails with ConfigError before a watcher is constructed: no        *)
(* watcher, no registered path, never Running, no other error.             *)
(* The formula states the claim; it does not hold.  fs_watch constructs    *)
(* the watcher (lib.rs 141) before it compiles the glob (lib.rs 148), so   *)
(* the pattern "[a" has a watcher and its thread, and a failure of the     *)
(* construction is reported in place of the ConfigError.                   *)
(***************************************************************************)
C14_ConfigValidatedBeforeWatcher ==
    ConfigInvalid =>
        /\ watcher = "none"
        /\ prodPc = "none"
        /\ ~watched
        /\ ~Running
        /\ pc = "returned" => result = "ConfigError"

\* the part of the state that belongs to the watch session
session == <<pc, result, options, handler, glob, watcher, watched, rx, chan,
             event, stat, filtered_paths, received>>

(***************************************************************************)
(* C15: an error raised by a handler does not change the session: the     *)
(* step in which a handler runs (and possibly raises) leaves every         *)
(* variable of the session as it is; after an error a Running session      *)
(* still ends only by cancellation, a watcher error or the closed channel; *)
(* and with an error raised the loop can still receive a buffered result,  *)
(* filter it and route it.                                                 *)
(***************************************************************************)
C15_HandlerErrorLeavesSession ==
    /\ [][/\ (sched # <<>> /\ sched' = Tail(sched)) => UNCHANGED session
          /\ (handlerError' # handlerError) => UNCHANGED session
          /\ (handlerError /\ Running /\ ~Running') =>
                \/ pc' = "cancelled"
                \/ Closed' /\ chan = <<>> /\ SendersDropped
                \/ Errored' /\ received' # received]_vars
    /\ [](handlerError =>
            /\ (pc = "recv" /\ rx = "open" /\ chan # <<>>) => ENABLED Recv
            /\ pc = "filter" => ENABLED Filter
            /\ pc = "filtered" => ENABLED Route)

\* a handler raised while the first event's thread ran; the second event
\* has since been received and filtered and is about to be dispatched
C15_Witness ==
    /\ handlerError
    /\ pc = "filtered"
    /\ event.id = 2
    /\ filtered_paths # <<>>
    /\ MatchKind(event.kind) # "continue"
    /\ handler[MatchKind(event.kind)]

\* the loop holds an event: it has received it and not yet awaited again
Busy == pc \in {"filter", "filtered"}

(***************************************************************************)
(* C16, as stated: while the loop is busy with an event the producer       *)
(* cannot complete a hand-off.                                             *)
(* It does not hold: the receipt of the event emptied the one slot of the  *)
(* channel, and a blocking send completes into an empty slot whether or    *)
(* not the loop awaits.                                                    *)
(***************************************************************************)
C16_BusyLoopStallsProducer == Busy => ~ENABLED SendComplete

(***************************************************************************)
(* C16, amended: while the loop is busy with an event the producer can     *)
(* complete a hand-off only into the empty slot, so at most the one result *)
(* that follows the event in hand; with the slot full the producer stalls, *)
(* and a hand-off completes again only after the loop has awaited the      *)
(* channel and received the buffered result.                               *)
(***************************************************************************)
C16_BusyLoopStallsSecondHandOff ==
    /\ []((Busy /\ chan # <<>>) => ~ENABLED SendComplete)
    /\ [](Busy => \A i \in DOMAIN sent : sent[i] <= event.id + 1)
    /\ [][(Busy /\ sent' # sent) =>
            /\ chan = <<>>
            /\ Len(chan') = ChannelCapacity
            /\ pc' = pc]_vars
    /\ [][(chan # <<>> /\ chan' = <<>> /\ rx' = "open") =>
            (pc = "recv" /\ received' # received)]_vars

\* the loop is about to dispatch an event, the next result is in the slot
\* and the producer is stalled in the hand-off of the one after
C16_Witness ==
    /\ pc = "filtered"
    /\ chan # <<>>
    /\ Head(chan).id = event.id + 1
    /\ prodPc = "sending"
    /\ prodEv.id = event.id + 2

\* the session is over: the call has returned or its future was dropped
Ended == pc \in {"returned", "cancelled"}

(***************************************************************************)
(* C17: dispatch is fire-and-forget and survives teardown: the iteration   *)
(* ends in the await whatever the scheduler's queue holds, the queue       *)
(* changes only by a thread appended at its back or by the thread at its   *)
(* front being run, the step that ends the session leaves the queue as it  *)
(* is, and a thread queued when the session is over can still be run.      *)
(***************************************************************************)
C17_ScheduledHandlersSurvive ==
    /\ [][/\ EndsIteration => (pc' = "recv" /\ IsPrefix(sched, sched'))
          /\ \/ sched' = sched
             \/ sched # <<>> /\ sched' = Tail(sched) /\ pc' = pc
             \/ Len(sched') = Len(sched) + 1 /\ IsPrefix(sched, sched')
          /\ (~Ended /\ Ended') => sched' = sched
          /\ (Ended /\ sched' # sched) => (sched # <<>> /\ sched' = Tail(sched))]_vars
    /\ [](pc = "filtered" => ENABLED Route)
    /\ []((Ended /\ sched # <<>>) => ENABLED RunHandler)

\* the call was cancelled with two threads queued and not yet run
C17_Witness ==
    /\ pc = "cancelled"
    /\ Len(sched) = 2
    /\ sched[1].id = 1
    /\ sched[2].id = 2

(***************************************************************************)
(* C18: a path that is neither a file nor a directory at filter time is    *)
(* never in the filtered list, whatever watch_files and watch_diretories   *)
(* are; an event of kind Remove whose paths are all gone ends its          *)
(* iteration with nothing scheduled.                                       *)
(***************************************************************************)
C18_VanishedPathIsExcluded ==
    [][/\ (pc = "filter" /\ pc' = "filtered") =>
            /\ \A i \in DOMAIN event.paths :
                  stat'[event.paths[i]] = "none" =>
                      to_string_lossy(event.paths[i]) \notin Range(filtered_paths')
            /\ Len(filtered_paths') <=
                  Cardinality({i \in DOMAIN event.paths :
                                  stat'[event.paths[i]] # "none"})
       /\ (EndsIteration /\ event.kind = "Remove"
             /\ \A p \in PathSet(event.paths) : stat[p] = "none") =>
            /\ filtered_paths = <<>>
            /\ sched' = sched
            /\ pc' = "recv"]_vars

\* the removal of a.t, gone by filter time, with files watched, a pattern
\* that matches it and a `removed` handler
C18_Witness ==
    /\ pc = "filtered"
    /\ event.kind = "Remove"
    /\ event.paths = <<PathA>>
    /\ stat[PathA] = "none"
    /\ options.watch_files
    /\ options.watch_diretories
    /\ is_match(glob, PathA)
    /\ handler["removed"]
    /\ filtered_paths = <<>>

(***************************************************************************)
(* C19: once the session has ended in Errored, the producer's blocking     *)
(* send never fails and its unwrap never panics.                           *)
(* The formula states the claim; it does not hold.  The return on the      *)
(* error drops rx and the watcher without waiting for the notify thread,   *)
(* which hands off its next result to a channel without a receiver.        *)
(***************************************************************************)
C19_ErroredSendNeverFails == Errored => prodPc # "panicked"

\* the position of the result with this id in the order of receipt
ReceivedAt(id) == CHOOSE a \in DOMAIN received : received[a] = id

(***************************************************************************)
(* C20: the threads of the scheduler's queue are in the order in which     *)
(* their events were received: a thread is appended at the back, for the   *)
(* event received last, and a result is received only when no event is in  *)
(* hand, so that of two queued threads the earlier is of the event         *)
(* received earlier.                                                       *)
(***************************************************************************)
C20_QueuedInOrderOfReceipt ==
    /\ [](\A i, j \in DOMAIN sched :
            /\ sched[i].id \in Range(received)
            /\ i < j => ReceivedAt(sched[i].id) < ReceivedAt(sched[j].id))
    /\ [][/\ Pushed =>
               /\ sched' = Append(sched, Last(sched'))
               /\ Last(sched').id = Last(received)
          /\ (received' # received) =>
               /\ pc = "recv"
               /\ event = NoEvent
               /\ sched' = sched]_vars

\* three events received, the first and the third dispatched, none run yet
C20_Witness ==
    /\ Len(received) = 3
    /\ Len(sched) = 2
    /\ sched[1].id = 1
    /\ sched[2].id = 3

====
